---- MODULE Spec2Model ----
(***************************************************************************)
(* Science Facts API: the fact corpus, its loader and the query handlers.  *)
(*                                                                         *)
(*   Spec        the bundled-data server (src/src/index.ts): the corpus is *)
(*               built when the module is loaded, every handler is         *)
(*               synchronous.                                              *)
(*   SpecRemote  the remote-fetch server (src/api/index.ts): every handler *)
(*               awaits loadFacts(), which fetches and memoizes the        *)
(*               corpus; several requests may be suspended in it at once.  *)
(*                                                                         *)
(* Strings are sequences of UTF-16 code units.  A JavaScript number is a   *)
(* record [nan, v]; an optional value (undefined / null or a value) is a   *)
(* sequence of length 0 or 1.                                              *)
(***************************************************************************)
EXTENDS Integers, Sequences, FiniteSets, TLC

\* ------------------------------------------------------------ responses
\* A response is a record that names its route and its HTTP status, then the
\* fields of its JSON body.  Between requests no response is being sent.
NoResponse == [route |-> "none", status |-> 0]

\* ------------------------------------------------------------ bounds
\* Largest corpus the model builds.
MaxN == 3
\* Requests the remote-fetch server may have suspended in loadFacts at once.
MaxInFlight == 2
\* Largest corpus the bot is run against (more than the five of /random5).
MaxBotN == 6

\* ------------------------------------------------------------ values
None == <<>>
Some(x) == <<x>>

NaN == [nan |-> TRUE, v |-> 0]
Num(n) == [nan |-> FALSE, v |-> n]

Min2(a, b) == IF a <= b THEN a ELSE b
Max2(a, b) == IF a >= b THEN a ELSE b

\* Math.min(a, b): NaN if either argument is NaN.
MathMin(a, b) ==
  IF a.nan \/ b.nan THEN NaN ELSE Num(Min2(a.v, b.v))

\* a + b on numbers
JsAdd(a, b) ==
  IF a.nan \/ b.nan THEN NaN ELSE Num(a.v + b.v)

\* a < b on numbers: false when either is NaN
JsLt(a, b) == (~a.nan) /\ (~b.nan) /\ a.v < b.v

\* isNaN(a)
IsNaN(a) == a.nan

\* ------------------------------------------------------------ strings
\* Code units used below: space 32, ' 39, + 43, - 45, 0..9 48..57, A..Z 65..90,
\* X 88, _ 95, a..z 97..122, x 120.

\* Decimal rendering of a natural number (String(n) / template literal).
RECURSIVE DecStr(_)
DecStr(n) ==
  IF n < 10 THEN <<48 + n>> ELSE DecStr(n \div 10) \o <<48 + (n % 10)>>

\* Rendering of an integer in a template literal.
IntStr(n) == IF n < 0 THEN <<45>> \o DecStr(0 - n) ELSE DecStr(n)

LowerCh(c) == IF c >= 65 /\ c <= 90 THEN c + 32 ELSE c

\* String.prototype.toLowerCase
ToLowerCase(s) == [i \in 1..Len(s) |-> LowerCh(s[i])]

\* String.prototype.includes
Includes(s, q) ==
  \E i \in 0..(Len(s) - Len(q)) :
    \A k \in 1..Len(q) : s[i + k] = q[k]

\* Value of a code unit as a digit of the radix, or -1.
DigitVal(c, radix) ==
  LET d == IF c >= 48 /\ c <= 57 THEN c - 48
           ELSE IF c >= 97 /\ c <= 102 THEN c - 97 + 10
           ELSE IF c >= 65 /\ c <= 70 THEN c - 65 + 10
           ELSE 0 - 1
  IN IF d >= 0 /\ d < radix THEN d ELSE 0 - 1

RECURSIVE SkipSpace(_)
SkipSpace(s) ==
  IF Len(s) > 0 /\ s[1] = 32 THEN SkipSpace(Tail(s)) ELSE s

\* The longest prefix of s made of digits of the radix.
RECURSIVE DigitPrefix(_, _)
DigitPrefix(s, radix) ==
  IF Len(s) > 0 /\ DigitVal(s[1], radix) >= 0
  THEN <<s[1]>> \o DigitPrefix(Tail(s), radix)
  ELSE <<>>

RECURSIVE DigitsValue(_, _, _)
DigitsValue(s, radix, acc) ==
  IF Len(s) = 0 THEN acc
  ELSE DigitsValue(Tail(s), radix, acc * radix + DigitVal(s[1], radix))

\* parseInt(s) with no radix argument: leading white space and one sign are
\* skipped, a 0x / 0X prefix selects radix 16, the longest run of digits is
\* read and whatever follows is ignored; NaN when there is no digit.
ParseInt(s) ==
  LET t == SkipSpace(s)
      neg == Len(t) > 0 /\ t[1] = 45
      u == IF Len(t) > 0 /\ (t[1] = 45 \/ t[1] = 43) THEN Tail(t) ELSE t
      hex == Len(u) >= 2 /\ u[1] = 48 /\ (u[2] = 120 \/ u[2] = 88)
      radix == IF hex THEN 16 ELSE 10
      w == IF hex THEN SubSeq(u, 3, Len(u)) ELSE u
      ds == DigitPrefix(w, radix)
  IN IF Len(ds) = 0 THEN NaN
     ELSE Num((IF neg THEN 0 - 1 ELSE 1) * DigitsValue(ds, radix, 0))

\* x ?? d
OrElse(x, d) == IF x = None THEN d ELSE x[1]

\* ------------------------------------------------------------ arrays
\* ToIntegerOrInfinity of a slice argument, made relative to the length.
RelIndex(x, len) ==
  LET i == IF x.nan THEN 0 ELSE x.v
  IN IF i < 0 THEN Max2(len + i, 0) ELSE Min2(i, len)

\* Array.prototype.slice(start, end)
Slice(a, start, end) ==
  LET k == RelIndex(start, Len(a))
      final == RelIndex(end, Len(a))
  IN SubSeq(a, k + 1, final)

\* Array.prototype.filter
Filter(a, Keep(_)) == SelectSeq(a, Keep)

\* A number as JSON.stringify writes it (NaN becomes null).
JsonNum(x) == IF x.nan THEN None ELSE Some(x.v)

\* Array.prototype.includes / Set.prototype.has on a sequence
Has(a, x) == \E i \in 1..Len(a) : a[i] = x

\* [...new Set(a)]: the distinct elements in order of first occurrence.
RECURSIVE Distinct(_)
Distinct(a) ==
  IF Len(a) = 0 THEN <<>>
  ELSE LET front == Distinct(SubSeq(a, 1, Len(a) - 1))
           last == a[Len(a)]
       IN IF Has(front, last) THEN front ELSE Append(front, last)

\* s sorts before t in the default Array.prototype.sort order of strings
\* (code unit by code unit, a proper prefix first).
RECURSIVE StrLess(_, _)
StrLess(s, t) ==
  IF Len(t) = 0 THEN FALSE
  ELSE IF Len(s) = 0 THEN TRUE
  ELSE IF s[1] # t[1] THEN s[1] < t[1]
  ELSE StrLess(Tail(s), Tail(t))

\* x put into the sorted sequence a, after the elements not greater than it.
RECURSIVE Insert(_, _)
Insert(a, x) ==
  IF Len(a) = 0 THEN <<x>>
  ELSE IF StrLess(x, a[1]) THEN <<x>> \o a
  ELSE <<a[1]>> \o Insert(Tail(a), x)

\* Array.prototype.sort() with no comparator, on strings.
RECURSIVE Sort(_)
Sort(a) == IF Len(a) = 0 THEN <<>> ELSE Insert(Sort(Tail(a)), a[1])

\* ------------------------------------------------------------ the corpus
\* Program constants of the handlers.
DefaultLimit == 100
DefaultOffset == 0
MaxLimit == 1000
DefaultCount == 1
MaxCount == 100
UniqueSources == 13

\* Records of facts.json (text, category), without ids.  Texts "aB" and "Ca";
\* categories "Ca", "ca" and "B": a category equal to a text, and two
\* categories that differ in letter case only.
RawFacts ==
  { [text |-> <<97, 66>>, category |-> <<67, 97>>],
    [text |-> <<67, 97>>, category |-> <<99, 97>>],
    [text |-> <<67, 97>>, category |-> <<66>>],
    [text |-> <<97, 66>>, category |-> <<99, 97>>] }

\* Sequences over S of length n, and of length at most n.
SeqsOfLen(S, n) == [1..n -> S]
SeqsUpTo(S, n) == UNION { SeqsOfLen(S, k) : k \in 0..n }

\* The contents facts.json may have.
RawCorpora == SeqsUpTo(RawFacts, MaxN)

\* data.map((f, i) => ({ ...f, id: i + 1 }))
AssignIds(data) ==
  [i \in 1..Len(data) |->
     [id |-> (i - 1) + 1, text |-> data[i].text, category |-> data[i].category]]

\* The category index without the sort.
CategoriesOfUnsorted(fs) ==
  Distinct([i \in 1..Len(fs) |-> fs[i].category])

\* [...new Set(facts.map((f) => f.category))].sort()
CategoriesOf(fs) ==
  Sort(Distinct([i \in 1..Len(fs) |-> fs[i].category]))

\* ------------------------------------------------------------ handlers
\* Each handler body as a function of the corpus and the request's raw
\* parameters (a query parameter is None when absent, else Some(string)).

\* GET /facts
ListPage(fs, limitRaw, offsetRaw) ==
  LET limit == MathMin(ParseInt(OrElse(limitRaw, DecStr(DefaultLimit))), Num(MaxLimit))
      offset == ParseInt(OrElse(offsetRaw, DecStr(DefaultOffset)))
      paginated == Slice(fs, offset, JsAdd(offset, limit))
  IN [route |-> "list",
      req |-> [limit |-> limitRaw, offset |-> offsetRaw],
      status |-> 200,
      data |-> paginated,
      pagination |-> [total |-> Len(fs),
                      limit |-> JsonNum(limit),
                      offset |-> JsonNum(offset),
                      hasMore |-> JsLt(JsAdd(offset, limit), Num(Len(fs)))]]

\* The search with the query left in the caller's letter case.
SearchMatchesRawQuery(fs, query) ==
  LET Keep(f) == Includes(ToLowerCase(f.text), query)
  IN Filter(fs, Keep)

\* The facts the search keeps: facts.filter((f) => f.text.toLowerCase().includes(q))
SearchMatches(fs, query) ==
  LET q == ToLowerCase(query)
      Keep(f) == Includes(ToLowerCase(f.text), q)
  IN Filter(fs, Keep)

\* GET /facts/search
Search(fs, qRaw) ==
  IF qRaw = None \/ qRaw = Some(<<>>)
  THEN [route |-> "search", req |-> [q |-> qRaw], status |-> 400,
        error |-> "Missing 'q' parameter"]
  ELSE LET query == qRaw[1]
           results == SearchMatches(fs, query)
       IN [route |-> "search", req |-> [q |-> qRaw], status |-> 200,
           data |-> results, count |-> Len(results), query |-> query]

\* GET /facts/categories
ListCategories(cats) ==
  [route |-> "categories", status |-> 200, data |-> cats, count |-> Len(cats)]

\* The category lookup matching a category that contains the name.
ByCategorySubstring(fs, name) ==
  LET category == ToLowerCase(name)
      Keep(f) == Includes(ToLowerCase(f.category), category)
      matched == Filter(fs, Keep)
  IN IF Len(matched) = 0
     THEN [route |-> "byCategory", req |-> [name |-> name], status |-> 404,
           error |-> <<"Category '", category, "' not found">>]
     ELSE [route |-> "byCategory", req |-> [name |-> name], status |-> 200,
           data |-> matched, category |-> name, count |-> Len(matched)]

\* The category lookup comparing the name as given with the lowered category.
ByCategoryRawName(fs, name) ==
  LET Keep(f) == ToLowerCase(f.category) = name
      matched == Filter(fs, Keep)
  IN IF Len(matched) = 0
     THEN [route |-> "byCategory", req |-> [name |-> name], status |-> 404,
           error |-> <<"Category '", name, "' not found">>]
     ELSE [route |-> "byCategory", req |-> [name |-> name], status |-> 200,
           data |-> matched, category |-> name, count |-> Len(matched)]

\* GET /facts/category/:name
ByCategory(fs, name) ==
  LET category == ToLowerCase(name)
      Keep(f) == ToLowerCase(f.category) = category
      matched == Filter(fs, Keep)
  IN IF Len(matched) = 0
     THEN [route |-> "byCategory", req |-> [name |-> name], status |-> 404,
           error |-> <<"Category '", category, "' not found">>]
     ELSE [route |-> "byCategory", req |-> [name |-> name], status |-> 200,
           data |-> matched, category |-> name, count |-> Len(matched)]

\* A lookup that takes the id for the array index.
FindAtIndex(fs, id) ==
  IF id >= 0 /\ id < Len(fs) THEN Some(fs[id + 1]) ELSE None

\* facts.find((f) => f.id === id): the first such fact, or undefined.
Find(fs, id) ==
  LET hits == { i \in 1..Len(fs) : fs[i].id = id }
  IN IF hits = {} THEN None
     ELSE Some(fs[CHOOSE i \in hits : \A j \in hits : i <= j])

\* GET /facts/:id
ById(fs, raw) ==
  LET id == ParseInt(raw)
  IN IF IsNaN(id)
     THEN [route |-> "byId", req |-> [id |-> raw], status |-> 400,
           error |-> "Invalid ID"]
     ELSE LET fact == Find(fs, id.v)
          IN IF fact = None
             THEN [route |-> "byId", req |-> [id |-> raw], status |-> 404,
                   error |-> <<"Fact ", IntStr(id.v), " not found">>]
             ELSE [route |-> "byId", req |-> [id |-> raw], status |-> 200,
                   data |-> fact[1]]

\* GET /stats
Stats(fs, cats) ==
  [route |-> "stats", status |-> 200, totalFacts |-> Len(fs),
   categories |-> Len(cats), uniqueSources |-> UniqueSources]

\* GET /
Info(fs) ==
  [route |-> "info", status |-> 200, facts |-> Len(fs)]

\* Math.min(parseInt(c.req.query("count") ?? "1"), 100)
CountOf(countRaw) ==
  MathMin(ParseInt(OrElse(countRaw, DecStr(DefaultCount))), Num(MaxCount))

\* The loop condition without the bound by the size of the corpus.
LoopCondCountOnly(res, cnt, fs) == JsLt(Num(Len(res)), cnt)

\* result.length < count && result.length < facts.length
LoopCond(res, cnt, fs) ==
  JsLt(Num(Len(res)), cnt) /\ Len(res) < Len(fs)

\* c.json({ data: count === 1 ? result[0] : result })
RandomResponse(countRaw, cnt, res) ==
  [route |-> "random", req |-> [count |-> countRaw], status |-> 200,
   shape |-> IF cnt = Num(1)
             THEN (IF Len(res) > 0 THEN "fact" ELSE "undefined")
             ELSE "array",
   data |-> IF cnt = Num(1)
            THEN (IF Len(res) > 0 THEN <<res[1]>> ELSE <<>>)
            ELSE res]

\* ------------------------------------------------------------ state
VARIABLES
  facts,        \* bundled server: the corpus (const facts)
  categories,   \* bundled server: the category index (const categories)
  pc,           \* bundled server: "idle", "sampling" (in the random handler's loop), "respond"
  countRaw,     \* random handler: the raw count parameter of the request
  count,        \* random handler: const count
  result,       \* random handler: const result
  indices,      \* random handler: const indices (a Set keeps insertion order)
  resp,         \* the response being sent (NoResponse between requests)
  factsCache,   \* remote server: let factsCache (None is null)
  upstream,     \* remote server: what facts.json holds at the remote source now
  call,         \* remote server: per slot, the request suspended in loadFacts
  returned,     \* history: how the loadFacts call that just ended returned
  assigns,      \* history: assignments to factsCache so far
  built,        \* history: the corpus the first successful load built
  failedAlone,  \* history: a load has failed while no other was in flight
  variant,      \* bot: which bot is deployed ("standalone", "combined", or "none")
  update,       \* bot: the Telegram update being handled (None between updates)
  botPc,        \* bot: "idle", "fetching", "looping", "sending", "done"
  outbox,       \* bot: the texts the handler has still to send, in order
  sent,         \* bot: the sendMessage calls made for this update, in order
  botResp       \* bot: the answer to the webhook call ("none" while handling)

vars == <<facts, categories, pc, countRaw, count, result, indices, resp,
          factsCache, upstream, call, returned, assigns, built, failedAlone,
          variant, update, botPc, outbox, sent, botResp>>

bundledVars == <<facts, categories, pc, countRaw, count, result, indices>>
loopVars == <<countRaw, count, result, indices>>
remoteVars == <<factsCache, upstream, call, returned, assigns, built, failedAlone>>
botVars == <<variant, update, botPc, outbox, sent, botResp>>

\* No bot is deployed beside the server.
NoBot ==
  /\ variant = "none"
  /\ update = None
  /\ botPc = "idle"
  /\ outbox = <<>>
  /\ sent = <<>>
  /\ botResp = "none"

\* ------------------------------------------------------------ inputs
\* Raw values of ?limit: absent, "", "0", "1", "2", "-1", "-2", "1001", "x", "2x".
LimitInputs ==
  { None, Some(<<>>), Some(DecStr(0)), Some(DecStr(1)), Some(DecStr(2)),
    Some(IntStr(0 - 1)), Some(IntStr(0 - 2)), Some(DecStr(MaxLimit + 1)),
    Some(<<120>>), Some(<<50, 120>>) }

\* Raw values of ?offset: absent, "0" .. MaxN, "-1" .. -MaxN, "x".
OffsetInputs ==
  { None, Some(<<120>>) }
    \cup { Some(IntStr(n)) : n \in (0 - MaxN)..MaxN }

\* Raw values of ?count: absent, "", "0" .. MaxN + 1, "-1", "101", "x".
CountInputs ==
  { None, Some(<<>>), Some(IntStr(0 - 1)), Some(DecStr(MaxCount + 1)), Some(<<120>>) }
    \cup { Some(DecStr(n)) : n \in 0..(MaxN + 1) }

\* Raw values of ?q: absent, "", and the strings of one or two of a, A, B, c.
QueryChars == { 97, 65, 66, 99 }
QueryInputs ==
  { None, Some(<<>>) }
    \cup { Some(q) : q \in SeqsOfLen(QueryChars, 1) \cup SeqsOfLen(QueryChars, 2) }

\* Values of :name: "Ca", "ca", "CA", "cA", "B", "b", "C", "a".
NameInputs ==
  { <<67, 97>>, <<99, 97>>, <<67, 65>>, <<99, 65>>, <<66>>, <<98>>, <<67>>, <<97>> }

\* Values of :id: "0" .. MaxN + 1, "-1", "x", "2x", "x2", " 1", "+1", "0x2".
IdInputs ==
  { IntStr(0 - 1), <<120>>, <<50, 120>>, <<120, 50>>, <<32, 49>>, <<43, 49>>,
    <<48, 120, 50>> }
    \cup { DecStr(n) : n \in 0..(MaxN + 1) }

\* ------------------------------------------------------------ bundled server
\* src/src/index.ts: the corpus and the category index are built when the
\* module is loaded; the remote server's variables are not used.
Init ==
  /\ \E data \in RawCorpora : facts = AssignIds(data)
  /\ categories = CategoriesOf(facts)
  /\ pc = "idle"
  /\ countRaw = None
  /\ count = Num(0)
  /\ result = <<>>
  /\ indices = <<>>
  /\ resp = NoResponse
  /\ factsCache = None
  /\ upstream = <<>>
  /\ call = <<>>
  /\ returned = None
  /\ assigns = 0
  /\ built = None
  /\ failedAlone = FALSE
  /\ NoBot

\* The handlers that answer in one step.
GetFacts ==
  /\ pc = "idle"
  /\ \E l \in LimitInputs, o \in OffsetInputs : resp' = ListPage(facts, l, o)
  /\ pc' = "respond"
  /\ UNCHANGED <<facts, categories, loopVars, remoteVars, botVars>>

GetSearch ==
  /\ pc = "idle"
  /\ \E q \in QueryInputs : resp' = Search(facts, q)
  /\ pc' = "respond"
  /\ UNCHANGED <<facts, categories, loopVars, remoteVars, botVars>>

GetCategories ==
  /\ pc = "idle"
  /\ resp' = ListCategories(categories)
  /\ pc' = "respond"
  /\ UNCHANGED <<facts, categories, loopVars, remoteVars, botVars>>

GetByCategory ==
  /\ pc = "idle"
  /\ \E name \in NameInputs : resp' = ByCategory(facts, name)
  /\ pc' = "respond"
  /\ UNCHANGED <<facts, categories, loopVars, remoteVars, botVars>>

GetById ==
  /\ pc = "idle"
  /\ \E raw \in IdInputs : resp' = ById(facts, raw)
  /\ pc' = "respond"
  /\ UNCHANGED <<facts, categories, loopVars, remoteVars, botVars>>

GetStats ==
  /\ pc = "idle"
  /\ resp' = Stats(facts, categories)
  /\ pc' = "respond"
  /\ UNCHANGED <<facts, categories, loopVars, remoteVars, botVars>>

GetInfo ==
  /\ pc = "idle"
  /\ resp' = Info(facts)
  /\ pc' = "respond"
  /\ UNCHANGED <<facts, categories, loopVars, remoteVars, botVars>>

\* GET /facts/random, up to the loop
RandomStart ==
  /\ pc = "idle"
  /\ \E c \in CountInputs :
       /\ countRaw' = c
       /\ count' = CountOf(c)
  /\ result' = <<>>
  /\ indices' = <<>>
  /\ pc' = "sampling"
  /\ UNCHANGED <<facts, categories, resp, remoteVars, botVars>>

\* A turn of the loop that keeps the drawn fact without looking at indices.
RandomDrawUnchecked ==
  /\ pc = "sampling"
  /\ LoopCond(result, count, facts)
  /\ \E idx \in 0..(Len(facts) - 1) :
       /\ indices' = Append(indices, idx)
       /\ result' = Append(result, facts[idx + 1])
  /\ UNCHANGED <<facts, categories, pc, countRaw, count, resp, remoteVars, botVars>>

\* One turn of the loop: idx = Math.floor(Math.random() * facts.length)
RandomDraw ==
  /\ pc = "sampling"
  /\ LoopCond(result, count, facts)
  /\ \E idx \in 0..(Len(facts) - 1) :
       IF ~Has(indices, idx)
       THEN /\ indices' = Append(indices, idx)
            /\ result' = Append(result, facts[idx + 1])
       ELSE UNCHANGED <<indices, result>>
  /\ UNCHANGED <<facts, categories, pc, countRaw, count, resp, remoteVars, botVars>>

\* The loop has ended: the handler answers.
RandomReturn ==
  /\ pc = "sampling"
  /\ ~LoopCond(result, count, facts)
  /\ resp' = RandomResponse(countRaw, count, result)
  /\ pc' = "respond"
  /\ UNCHANGED <<facts, categories, loopVars, remoteVars, botVars>>

\* The response is written to the client and the handler's locals are gone;
\* the server takes the next request.
Respond ==
  /\ pc = "respond"
  /\ pc' = "idle"
  /\ resp' = NoResponse
  /\ countRaw' = None
  /\ count' = Num(0)
  /\ result' = <<>>
  /\ indices' = <<>>
  /\ UNCHANGED <<facts, categories, remoteVars, botVars>>

Next ==
  \/ GetInfo
  \/ GetFacts
  \/ RandomStart
  \/ RandomDraw
  \/ RandomReturn
  \/ GetSearch
  \/ GetCategories
  \/ GetByCategory
  \/ GetById
  \/ GetStats
  \/ Respond

Spec == Init /\ [][Next]_vars

\* The draws of Math.random are fair: an index that the loop has not drawn yet
\* is drawn at some turn, and a handler whose loop has ended goes on to answer.
SpecFair ==
  /\ Init
  /\ [][Next]_vars
  /\ WF_vars(RandomReturn)
  /\ \A idx \in 0..(MaxN - 1) : WF_vars(RandomDraw /\ indices' = Append(indices, idx))

\* ------------------------------------------------------------ remote server
\* src/api/index.ts: every handler starts with  const facts = await loadFacts().
Slots == 1..MaxInFlight

\* The records the remote facts.json is made of, in order of publication.
Dataset ==
  [i \in 1..MaxN |->
     IF i % 2 = 1 THEN [text |-> <<97, 66>>, category |-> <<67, 97>>]
                  ELSE [text |-> <<67, 97>>, category |-> <<99, 97>>]]

\* The contents the remote facts.json may have: the first k records.
UpstreamCorpora == { SubSeq(Dataset, 1, k) : k \in 0..MaxN }

\* The requests the remote server is sent: search with q absent, "" and "a",
\* list with no parameter, categories, category "ca", id "1", stats, info.
RemoteRequests ==
  { [route |-> "search", q |-> None],
    [route |-> "search", q |-> Some(<<>>)],
    [route |-> "search", q |-> Some(<<97>>)],
    [route |-> "list", limit |-> None, offset |-> None],
    [route |-> "categories"],
    [route |-> "byCategory", name |-> <<99, 97>>],
    [route |-> "byId", id |-> <<49>>],
    [route |-> "stats"],
    [route |-> "info"] }

Free == [pc |-> "free"]

\* The handler's body after  await loadFacts()  has given it the corpus.
Handle(req, fs) ==
  CASE req.route = "search" -> Search(fs, req.q)
    [] req.route = "list" -> ListPage(fs, req.limit, req.offset)
    [] req.route = "categories" -> ListCategories(CategoriesOf(fs))
    [] req.route = "byCategory" -> ByCategory(fs, req.name)
    [] req.route = "byId" -> ById(fs, req.id)
    [] req.route = "stats" -> Stats(fs, CategoriesOf(fs))
    [] req.route = "info" -> Info(fs)

\* loadFacts() threw: the handler's promise rejects and the framework answers 500.
Failure(req) ==
  [route |-> req.route, req |-> req, status |-> 500,
   error |-> "Internal Server Error"]

InitRemote ==
  /\ facts = <<>>
  /\ categories = <<>>
  /\ pc = "idle"
  /\ countRaw = None
  /\ count = Num(0)
  /\ result = <<>>
  /\ indices = <<>>
  /\ resp = NoResponse
  /\ factsCache = None
  /\ upstream \in UpstreamCorpora
  /\ call = [s \in Slots |-> Free]
  /\ returned = None
  /\ assigns = 0
  /\ built = None
  /\ failedAlone = FALSE
  /\ NoBot

\* The remote facts.json is replaced.
UpstreamChange ==
  /\ \E data \in UpstreamCorpora \ {upstream} : upstream' = data
  /\ UNCHANGED <<bundledVars, resp, factsCache, call, returned, assigns, built, failedAlone, botVars>>

\* A request arrives while factsCache is set: loadFacts returns it at once
\* and the handler answers.                    if (factsCache) return factsCache
LoadFactsCached ==
  /\ resp = NoResponse
  /\ factsCache # None
  /\ \E req \in RemoteRequests :
       resp' = Handle(req, factsCache[1])
  /\ returned' = Some([ok |-> TRUE, fetched |-> FALSE, value |-> factsCache[1]])
  /\ UNCHANGED <<bundledVars, factsCache, upstream, call, assigns, built, failedAlone, botVars>>

\* A request arrives while factsCache is null: loadFacts issues a fetch and
\* the request is suspended.                           const res = await fetch(...)
LoadFactsFetch(s) ==
  /\ resp = NoResponse
  /\ factsCache = None
  /\ call[s] = Free
  /\ \E req \in RemoteRequests :
       call' = [call EXCEPT ![s] = [pc |-> "fetch", req |-> req]]
  /\ UNCHANGED <<bundledVars, resp, factsCache, upstream, returned, assigns, built, failedAlone, botVars>>

Alone(s) == \A t \in Slots \ {s} : call[t] = Free

\* A load that, when it throws, leaves an empty corpus in the cache.
ThrowPoisoning(s) ==
  /\ resp' = Failure(call[s].req)
  /\ returned' = Some([ok |-> FALSE, fetched |-> TRUE, value |-> <<>>])
  /\ call' = [call EXCEPT ![s] = Free]
  /\ failedAlone' = (failedAlone \/ (Alone(s) /\ factsCache = None))
  /\ factsCache' = Some(<<>>)
  /\ UNCHANGED <<bundledVars, upstream, assigns, built, botVars>>

\* The load of slot s throws: nothing is assigned, the request fails.
Throw(s) ==
  /\ resp' = Failure(call[s].req)
  /\ returned' = Some([ok |-> FALSE, fetched |-> TRUE, value |-> <<>>])
  /\ call' = [call EXCEPT ![s] = Free]
  /\ failedAlone' = (failedAlone \/ (Alone(s) /\ factsCache = None))
  /\ UNCHANGED <<bundledVars, factsCache, upstream, assigns, built, botVars>>

\* The fetch resolves with a response; loadFacts goes on to  await res.json().
FetchResolve(s) ==
  /\ resp = NoResponse
  /\ call[s].pc = "fetch"
  /\ call' = [call EXCEPT ![s].pc = "json"]
  /\ UNCHANGED <<bundledVars, resp, factsCache, upstream, returned, assigns, built, failedAlone, botVars>>

\* The fetch rejects (the remote source cannot be reached).
FetchReject(s) ==
  /\ resp = NoResponse
  /\ call[s].pc = "fetch"
  /\ Throw(s)

\* res.json() rejects: the body is not JSON (an error page, a cut transfer).
JsonReject(s) ==
  /\ resp = NoResponse
  /\ call[s].pc = "json"
  /\ Throw(s)

\* res.json() resolves with a value that has no map method (not an array):
\* data.map throws before factsCache is assigned.
MapThrow(s) ==
  /\ resp = NoResponse
  /\ call[s].pc = "json"
  /\ Throw(s)

\* res.json() resolves with the array the remote source holds: factsCache is
\* assigned and returned, and the handler answers.
JsonResolve(s) ==
  /\ resp = NoResponse
  /\ call[s].pc = "json"
  /\ factsCache' = Some(AssignIds(upstream))
  /\ assigns' = assigns + 1
  /\ built' = IF built = None THEN factsCache' ELSE built
  /\ returned' = Some([ok |-> TRUE, fetched |-> TRUE, value |-> factsCache'[1]])
  /\ resp' = Handle(call[s].req, factsCache'[1])
  /\ call' = [call EXCEPT ![s] = Free]
  /\ UNCHANGED <<bundledVars, upstream, failedAlone, botVars>>

\* The response is written to the client.
RemoteRespond ==
  /\ resp # NoResponse
  /\ resp' = NoResponse
  /\ returned' = None
  /\ UNCHANGED <<bundledVars, factsCache, upstream, call, assigns, built, failedAlone, botVars>>

NextRemote ==
  \/ UpstreamChange
  \/ LoadFactsCached
  \/ \E s \in Slots : LoadFactsFetch(s)
  \/ \E s \in Slots : FetchResolve(s)
  \/ \E s \in Slots : FetchReject(s)
  \/ \E s \in Slots : JsonReject(s)
  \/ \E s \in Slots : MapThrow(s)
  \/ \E s \in Slots : JsonResolve(s)
  \/ RemoteRespond

SpecRemote == InitRemote /\ [][NextRemote]_vars

\* ------------------------------------------------------------ bot: texts
\* String.prototype.trim, startsWith, slice(k) and replace(/x/g, y).
IsSpace(ch) == ch \in {9, 10, 13, 32}

RECURSIVE TrimStart(_)
TrimStart(s) ==
  IF Len(s) > 0 /\ IsSpace(s[1]) THEN TrimStart(Tail(s)) ELSE s

RECURSIVE TrimEnd(_)
TrimEnd(s) ==
  IF Len(s) > 0 /\ IsSpace(s[Len(s)]) THEN TrimEnd(SubSeq(s, 1, Len(s) - 1)) ELSE s

Trim(s) == TrimEnd(TrimStart(s))

StartsWith(s, prefix) ==
  Len(s) >= Len(prefix) /\ SubSeq(s, 1, Len(prefix)) = prefix

SliceFrom(s, k) == SubSeq(s, k + 1, Len(s))

ReplaceAll(s, from, to) == [i \in 1..Len(s) |-> IF s[i] = from THEN to ELSE s[i]]

\* The command words: "/start", "/random", "/random5", "/search ",
\* "/categories", "/category ", "/stats", and the "/" every command starts with.
CmdStart == <<47, 115, 116, 97, 114, 116>>
CmdRandom == <<47, 114, 97, 110, 100, 111, 109>>
CmdRandom5 == <<47, 114, 97, 110, 100, 111, 109, 53>>
CmdSearch == <<47, 115, 101, 97, 114, 99, 104, 32>>
CmdCategories == <<47, 99, 97, 116, 101, 103, 111, 114, 105, 101, 115>>
CmdCategory == <<47, 99, 97, 116, 101, 103, 111, 114, 121, 32>>
CmdStats == <<47, 115, 116, 97, 116, 115>>
Slash == <<47>>

\* How many facts /random5 sends, how many a search or a category shows, and
\* how many categories /categories lists.
Random5Count == 5
ShownMax == 3
ListedMax == 30

\* The branch of the handler that a trimmed text takes, in the order of the
\* handler's tests; "other" is what falls through all of them.
Command(text) ==
  IF text = CmdStart THEN "start"
  ELSE IF text = CmdRandom THEN "random"
  ELSE IF text = CmdRandom5 THEN "random5"
  ELSE IF StartsWith(text, CmdSearch) THEN "search"
  ELSE IF text = CmdCategories THEN "categories"
  ELSE IF StartsWith(text, CmdCategory) THEN "category"
  ELSE IF text = CmdStats THEN "stats"
  ELSE "other"

\* ------------------------------------------------------------ bot: messages
\* formatFact(fact): the category with "_" turned to " ", then the text.
FormatFact(fact) ==
  [kind |-> "fact", category |-> ReplaceAll(fact.category, 95, 32), text |-> fact.text]

FormatFacts(fs) == [k \in 1..Len(fs) |-> FormatFact(fs[k])]

StartMsg == [kind |-> "start"]
UsageMsg == [kind |-> "usage"]
UnknownMsg == [kind |-> "unknown command"]
NoneFoundMsg(query) == [kind |-> "none found", query |-> query]
CategoryNotFoundMsg == [kind |-> "category not found"]

\* The texts that answer /search <query>.
SearchReply(v, fs, text) ==
  LET query == Trim(SliceFrom(text, Len(CmdSearch)))
  IN IF query = <<>>
     THEN <<UsageMsg>>
     ELSE IF v = "standalone"
     THEN LET data == Search(fs, Some(query))
              shown == Slice(data.data, Num(0), Num(ShownMax))
          IN IF data.count = 0
             THEN <<NoneFoundMsg(query)>>
             ELSE <<[kind |-> "found", count |-> data.count, query |-> query,
                     shown |-> Len(shown)]>> \o FormatFacts(shown)
     ELSE LET results == SearchMatches(fs, query)
          IN IF Len(results) = 0
             THEN <<NoneFoundMsg(query)>>
             ELSE <<[kind |-> "found", count |-> Len(results), query |-> query]>>
                    \o FormatFacts(Slice(results, Num(0), Num(ShownMax)))

\* The text that answers /categories.
CategoriesReply(v, fs) ==
  LET data == ListCategories(CategoriesOf(fs))
      list == Slice(data.data, Num(0), Num(ListedMax))
  IN <<[kind |-> "categories", count |-> data.count,
        list |-> [k \in 1..Len(list) |-> ReplaceAll(list[k], 95, 32)]]>>

\* The texts that answer /category <name>.
CategoryReply(v, fs, text) ==
  LET cat == ReplaceAll(ToLowerCase(Trim(SliceFrom(text, Len(CmdCategory)))), 32, 95)
      Keep(f) == ToLowerCase(f.category) = cat
      matched == IF v = "standalone"
                 THEN LET data == ByCategory(fs, cat)
                      IN IF data.status = 200 THEN data.data ELSE <<>>
                 ELSE Filter(fs, Keep)
  IN IF Len(matched) = 0
     THEN <<CategoryNotFoundMsg>>
     ELSE <<[kind |-> "category", category |-> ReplaceAll(cat, 95, 32),
             count |-> Len(matched)]>>
            \o FormatFacts(Slice(matched, Num(0), Num(ShownMax)))

\* The text that answers /stats.
StatsReply(v, fs) ==
  LET data == Stats(fs, CategoriesOf(fs))
  IN <<[kind |-> "stats", totalFacts |-> data.totalFacts,
        categories |-> data.categories, uniqueSources |-> data.uniqueSources]>>

\* The texts of the commands that draw nothing at random.
Reply(v, fs, text) ==
  CASE Command(text) = "start" -> <<StartMsg>>
    [] Command(text) = "search" -> SearchReply(v, fs, text)
    [] Command(text) = "categories" -> CategoriesReply(v, fs)
    [] Command(text) = "category" -> CategoryReply(v, fs, text)
    [] Command(text) = "stats" -> StatsReply(v, fs)

\* ------------------------------------------------------------ bot: inputs
\* The facts of the corpus the bot serves: texts "a1", "a2", ... and the
\* categories "c_a", "Ca", "B" in turn.
BotFacts ==
  [i \in 1..MaxBotN |->
     [text |-> <<97>> \o DecStr(i),
      category |-> IF i % 3 = 1 THEN <<99, 95, 97>>
                   ELSE IF i % 3 = 2 THEN <<67, 97>> ELSE <<66>>]]

BotCorpora == { AssignIds(SubSeq(BotFacts, 1, n)) : n \in 0..MaxBotN }

ChatIds == {101, 102}

\* message.text: absent (a photo, a sticker), "", " ", the commands, a command
\* between spaces, commands without their argument or with one more, an
\* unknown command "/foo" and the plain text "hi".
BotTexts ==
  { None, Some(<<>>), Some(<<32>>),
    Some(CmdStart), Some(CmdRandom), Some(CmdRandom5),
    Some(<<32>> \o CmdRandom5 \o <<32>>),
    Some(CmdRandom \o <<32, 53>>),
    Some(CmdSearch \o <<97>>), Some(CmdSearch \o <<65, 49>>),
    Some(CmdSearch \o <<122, 122>>), Some(TrimEnd(CmdSearch)),
    Some(CmdCategories),
    Some(CmdCategory \o <<67, 32, 97>>), Some(CmdCategory \o <<98>>),
    Some(CmdCategory \o <<122>>), Some(TrimEnd(CmdCategory)),
    Some(CmdStats),
    Some(<<47, 102, 111, 111>>), Some(<<104, 105>>) }

\* ------------------------------------------------------------ bot
\* The corpus is loaded; an update arrives, the handler sends its texts one
\* sendMessage call at a time and answers the webhook.  The standalone bot
\* (src/api/bot.ts) gets its facts from the API over HTTP, here the random
\* handler run on the same corpus; the combined bot (POST /bot) reads the
\* corpus itself.  Telegram is taken to accept every sendMessage call.
InitBot ==
  /\ facts \in BotCorpora
  /\ categories = CategoriesOf(facts)
  /\ pc = "idle"
  /\ countRaw = None
  /\ count = Num(0)
  /\ result = <<>>
  /\ indices = <<>>
  /\ resp = NoResponse
  /\ factsCache = None
  /\ upstream = <<>>
  /\ call = <<>>
  /\ returned = None
  /\ assigns = 0
  /\ built = None
  /\ failedAlone = FALSE
  /\ variant \in {"standalone", "combined"}
  /\ update = None
  /\ botPc = "idle"
  /\ outbox = <<>>
  /\ sent = <<>>
  /\ botResp = "none"

\* The text of the update being handled, trimmed, and its branch.
Text == Trim(update[1].text[1])
Branch == Command(Text)

\* if (!message?.text) return c.json({ ok: true })
HasText(t) == t # None /\ t # Some(<<>>)

\* An update with no text is answered at once.
BotIgnore ==
  /\ botPc = "idle"
  /\ \E chat \in ChatIds, t \in BotTexts :
       /\ ~HasText(t)
       /\ update' = Some([chat |-> chat, text |-> t])
  /\ botResp' = "ok"
  /\ botPc' = "done"
  /\ UNCHANGED <<bundledVars, resp, remoteVars, variant, outbox, sent>>

\* /start, /search, /categories, /category, /stats
BotCommand ==
  /\ botPc = "idle"
  /\ \E chat \in ChatIds, t \in BotTexts :
       /\ HasText(t)
       /\ Command(Trim(t[1])) \in {"start", "search", "categories", "category", "stats"}
       /\ update' = Some([chat |-> chat, text |-> t])
       /\ outbox' = Reply(variant, facts, Trim(t[1]))
  /\ botPc' = "sending"
  /\ UNCHANGED <<bundledVars, resp, remoteVars, variant, sent, botResp>>

\* The standalone bot: a text no command matches that starts with "/".
BotUnknown ==
  /\ botPc = "idle"
  /\ variant = "standalone"
  /\ \E chat \in ChatIds, t \in BotTexts :
       /\ HasText(t)
       /\ Command(Trim(t[1])) = "other"
       /\ StartsWith(Trim(t[1]), Slash)
       /\ update' = Some([chat |-> chat, text |-> t])
  /\ outbox' = <<UnknownMsg>>
  /\ botPc' = "sending"
  /\ UNCHANGED <<bundledVars, resp, remoteVars, variant, sent, botResp>>

\* The standalone bot: /random, /random5 and a plain text fetch
\* /facts/random or /facts/random?count=5 from the API.
BotFetchRandom ==
  /\ botPc = "idle"
  /\ variant = "standalone"
  /\ pc = "idle"
  /\ \E chat \in ChatIds, t \in BotTexts :
       /\ HasText(t)
       /\ \/ Command(Trim(t[1])) \in {"random", "random5"}
          \/ Command(Trim(t[1])) = "other" /\ ~StartsWith(Trim(t[1]), Slash)
       /\ update' = Some([chat |-> chat, text |-> t])
       /\ countRaw' = IF Command(Trim(t[1])) = "random5"
                      THEN Some(DecStr(Random5Count)) ELSE None
  /\ count' = CountOf(countRaw')
  /\ result' = <<>>
  /\ indices' = <<>>
  /\ pc' = "sampling"
  /\ botPc' = "fetching"
  /\ UNCHANGED <<facts, categories, resp, remoteVars, variant, outbox, sent, botResp>>

\* The standalone bot: the API has answered.  formatFact(undefined) throws.
BotFetched ==
  /\ botPc = "fetching"
  /\ pc = "respond"
  /\ IF Branch = "random5"
     THEN /\ outbox' = FormatFacts(resp.data)
          /\ botPc' = "sending"
          /\ UNCHANGED botResp
     ELSE IF resp.shape = "fact"
     THEN /\ outbox' = <<FormatFact(resp.data[1])>>
          /\ botPc' = "sending"
          /\ UNCHANGED botResp
     ELSE /\ botResp' = "error"
          /\ botPc' = "done"
          /\ UNCHANGED outbox
  /\ pc' = "idle"
  /\ resp' = NoResponse
  /\ countRaw' = None
  /\ count' = Num(0)
  /\ result' = <<>>
  /\ indices' = <<>>
  /\ UNCHANGED <<facts, categories, remoteVars, variant, update, sent>>

\* The combined bot: /random and every text no command matches send
\* facts[Math.floor(Math.random() * facts.length)]; of an empty corpus that is
\* undefined and formatFact throws.
BotPickRandom ==
  /\ botPc = "idle"
  /\ variant = "combined"
  /\ \E chat \in ChatIds, t \in BotTexts :
       /\ HasText(t)
       /\ Command(Trim(t[1])) \in {"random", "other"}
       /\ update' = Some([chat |-> chat, text |-> t])
  /\ IF Len(facts) = 0
     THEN /\ botResp' = "error"
          /\ botPc' = "done"
          /\ UNCHANGED outbox
     ELSE /\ \E idx \in 0..(Len(facts) - 1) : outbox' = <<FormatFact(facts[idx + 1])>>
          /\ botPc' = "sending"
          /\ UNCHANGED botResp
  /\ UNCHANGED <<bundledVars, resp, remoteVars, variant, sent>>

\* The combined bot: /random5 starts with  const indices = new Set<number>().
BotRandom5Start ==
  /\ botPc = "idle"
  /\ variant = "combined"
  /\ \E chat \in ChatIds, t \in BotTexts :
       /\ HasText(t)
       /\ Command(Trim(t[1])) = "random5"
       /\ update' = Some([chat |-> chat, text |-> t])
  /\ indices' = <<>>
  /\ botPc' = "looping"
  /\ UNCHANGED <<facts, categories, pc, countRaw, count, result, resp, remoteVars,
                 variant, outbox, sent, botResp>>

\* Math.floor(Math.random() * facts.length): 0 when the corpus is empty.
Random5Draws == 0..Max2(Len(facts) - 1, 0)

\* while (indices.size < 5) indices.add(Math.floor(Math.random() * facts.length))
BotRandom5Draw ==
  /\ botPc = "looping"
  /\ Len(indices) < Random5Count
  /\ \E idx \in Random5Draws :
       indices' = IF Has(indices, idx) THEN indices ELSE Append(indices, idx)
  /\ UNCHANGED <<facts, categories, pc, countRaw, count, result, resp, remoteVars,
                 variant, update, botPc, outbox, sent, botResp>>

\* The loop has ended: for (const idx of indices) ... formatFact(facts[idx])
BotRandom5Exit ==
  /\ botPc = "looping"
  /\ ~(Len(indices) < Random5Count)
  /\ outbox' = [k \in 1..Len(indices) |-> FormatFact(facts[indices[k] + 1])]
  /\ botPc' = "sending"
  /\ UNCHANGED <<bundledVars, resp, remoteVars, variant, update, sent, botResp>>

\* await telegram("sendMessage", { chat_id: chatId, text: ... })
BotSend ==
  /\ botPc = "sending"
  /\ outbox # <<>>
  /\ sent' = Append(sent, [chat_id |-> update[1].chat, message |-> Head(outbox)])
  /\ outbox' = Tail(outbox)
  /\ UNCHANGED <<bundledVars, resp, remoteVars, variant, update, botPc, botResp>>

\* return c.json({ ok: true })
BotAnswer ==
  /\ botPc = "sending"
  /\ outbox = <<>>
  /\ botResp' = "ok"
  /\ botPc' = "done"
  /\ UNCHANGED <<bundledVars, resp, remoteVars, variant, update, outbox, sent>>

\* The webhook call is over; the bot takes the next update.
BotNextUpdate ==
  /\ botPc = "done"
  /\ update' = None
  /\ botPc' = "idle"
  /\ sent' = <<>>
  /\ botResp' = "none"
  /\ indices' = <<>>
  /\ UNCHANGED <<facts, categories, pc, countRaw, count, result, resp, remoteVars,
                 variant, outbox>>

NextBot ==
  \/ BotIgnore
  \/ BotCommand
  \/ BotUnknown
  \/ BotFetchRandom
  \/ RandomDraw
  \/ RandomReturn
  \/ BotFetched
  \/ BotPickRandom
  \/ BotRandom5Start
  \/ BotRandom5Draw
  \/ BotRandom5Exit
  \/ BotSend
  \/ BotAnswer
  \/ BotNextUpdate

SpecBot == InitBot /\ [][NextBot]_vars

\* ------------------------------------------------------------ properties
N == Len(facts)

\* The integer a raw parameter stands for (the default when it is absent).
Given(raw, default) == ParseInt(OrElse(raw, DecStr(default)))

\* The facts at the corpus positions lo <= p < hi that exist, in corpus order.
FactsAt(lo, hi) ==
  LET a == Max2(lo, 0)
      b == Min2(hi, N)
  IN [k \in 1..Max2(b - a, 0) |-> facts[a + k]]

\* What C6 says of the answer to listPage(limit, offset).
ListPageAsClaimed(limit, offset) ==
  LET eff == Min2(limit, MaxLimit)
  IN /\ resp.status = 200
     /\ resp.data = FactsAt(offset, offset + eff)
     /\ resp.pagination.total = N
     /\ resp.pagination.limit = Some(eff)
     /\ resp.pagination.offset = Some(offset)
     /\ resp.pagination.hasMore = (offset + eff < N)
     /\ (offset >= 0 /\ eff >= 1) =>
          (resp.pagination.hasMore <=> \E p \in 0..(N - 1) : p >= offset + eff)

IsListOfIntegers ==
  /\ resp.route = "list"
  /\ ~Given(resp.req.limit, DefaultLimit).nan
  /\ ~Given(resp.req.offset, DefaultOffset).nan

\* C6: listPage(limit, offset), for every integer offset and every limit >= 1
\* (defaults 100 and 0; the spec sets a non-positive limit aside as a known
\* edge case), answers with the facts at the corpus positions
\* [offset, offset + min(limit, 1000)) that exist, in id order, and reports
\* total = N, the clamped limit, the offset and hasMore = (offset + limit < N).
C6_ListPage ==
  (IsListOfIntegers /\ Given(resp.req.limit, DefaultLimit).v >= 1) =>
    ListPageAsClaimed(Given(resp.req.limit, DefaultLimit).v,
                      Given(resp.req.offset, DefaultOffset).v)

\* The same for offset >= 0 and limit >= 0 only (not a claim; kept to show
\* where C6_ListPage fails).
ListPageNonNegative ==
  (/\ IsListOfIntegers
   /\ Given(resp.req.limit, DefaultLimit).v >= 0
   /\ Given(resp.req.offset, DefaultOffset).v >= 0) =>
    ListPageAsClaimed(Given(resp.req.limit, DefaultLimit).v,
                      Given(resp.req.offset, DefaultOffset).v)

\* C7: listPage never answers with an error, and for every integer offset out
\* of range (offset >= N or offset < 0), with any limit, the page is empty.
C7_OutOfRangeOffsetEmpty ==
  resp.route = "list" =>
    /\ resp.status = 200
    /\ LET o == Given(resp.req.offset, DefaultOffset)
       IN (~o.nan /\ (o.v >= N \/ o.v < 0)) => resp.data = <<>>

\* The part of C7 that holds: no error, and an empty page for offset >= N.
OffsetPastEndEmpty ==
  resp.route = "list" =>
    /\ resp.status = 200
    /\ LET o == Given(resp.req.offset, DefaultOffset)
       IN (~o.nan /\ o.v >= N) => resp.data = <<>>

\* The facts of a sequence are facts of the corpus, no fact twice.
DistinctCorpusFacts(a) ==
  /\ \A i \in 1..Len(a) : a[i].id \in 1..N /\ a[i] = facts[a[i].id]
  /\ \A i, j \in 1..Len(a) : i # j => a[i].id # a[j].id

\* C8: randomSample(count), count >= 1, answers with exactly min(count, 100, N)
\* facts, all of the corpus, no fact twice, in the order drawn; when
\* min(count, 100) >= N every fact of the corpus is in the answer.
C8_SampleWithoutReplacement ==
  /\ resp.route = "random" =>
       /\ resp.req.count = countRaw
       /\ resp.data = IF count = Num(1) THEN SubSeq(result, 1, Min2(1, Len(result)))
                                        ELSE result
  /\ (pc = "sampling" \/ resp.route = "random") =>
       /\ Len(result) = Len(indices)
       /\ \A k \in 1..Len(result) :
            indices[k] \in 0..(N - 1) /\ result[k] = facts[indices[k] + 1]
       /\ DistinctCorpusFacts(result)
  /\ (resp.route = "random" /\ ~Given(resp.req.count, DefaultCount).nan
        /\ Given(resp.req.count, DefaultCount).v >= 1) =>
       LET c == Given(resp.req.count, DefaultCount).v
           k == Min2(Min2(c, MaxCount), N)
       IN /\ resp.status = 200
          /\ Len(resp.data) = k
          /\ DistinctCorpusFacts(resp.data)
          /\ (k = N) => \A i \in 1..N : \E j \in 1..k : resp.data[j] = facts[i]

\* C8 witness: a request for more facts than the corpus holds was answered
\* with the whole corpus, not in corpus order.
C8_Witness ==
  /\ resp.route = "random"
  /\ N >= 2
  /\ ~Given(resp.req.count, DefaultCount).nan
  /\ Given(resp.req.count, DefaultCount).v > N
  /\ Len(resp.data) = N
  /\ resp.data[1].id > resp.data[2].id

\* t contains q when letter case is ignored.
ContainsIgnoringCase(t, q) ==
  \E i \in 0..(Len(t) - Len(q)) :
    \A k \in 1..Len(q) : LowerCh(t[i + k]) = LowerCh(q[k])

\* C10: searchText(q), q not empty, answers with exactly the facts whose text
\* contains q ignoring letter case (the category is not looked at), in
\* ascending id order, none twice; count is their number and query is q as given.
C10_SearchText ==
  (resp.route = "search" /\ resp.req.q # None /\ resp.req.q # Some(<<>>)) =>
    LET q == resp.req.q[1]
    IN /\ resp.status = 200
       /\ \A i \in 1..Len(resp.data) :
            resp.data[i].id \in 1..N /\ resp.data[i] = facts[resp.data[i].id]
       /\ \A i, j \in 1..Len(resp.data) : i < j => resp.data[i].id < resp.data[j].id
       /\ \A p \in 1..N :
            (\E i \in 1..Len(resp.data) : resp.data[i].id = p)
              <=> ContainsIgnoringCase(facts[p].text, q)
       /\ resp.count = Len(resp.data)
       /\ resp.query = q

\* C10 witness: a query in another letter case than the text matched a fact,
\* and a fact whose category (not its text) contains the query was left out.
C10_Witness ==
  /\ resp.route = "search"
  /\ resp.status = 200
  /\ \E i \in 1..Len(resp.data) :
       /\ ContainsIgnoringCase(resp.data[i].text, resp.query)
       /\ ~Includes(resp.data[i].text, resp.query)
  /\ \E p \in 1..N :
       /\ ContainsIgnoringCase(facts[p].category, resp.query)
       /\ \A i \in 1..Len(resp.data) : resp.data[i].id # p

\* ------------------------------------------------------------ loader properties
\* The ids of a corpus are 1..N in order.
IdsInOrder(fs) == \A i \in 1..Len(fs) : fs[i].id = i

\* The part of C1 that holds of both servers: the ids are 1..N in order.
IdsSequential ==
  /\ IdsInOrder(facts)
  /\ factsCache # None => IdsInOrder(factsCache[1])

\* The part of C1 that holds of the bundled server: no step changes the corpus.
CorpusNeverChanges == [][facts' = facts /\ categories' = categories]_vars

\* C1: once the corpus is built it is the same ordered sequence of facts in
\* every later state, and the fact at position i (0-based) has id i + 1.
C1_CorpusFixedOnceBuilt ==
  factsCache # None =>
    /\ IdsInOrder(factsCache[1])
    /\ factsCache[1] = built[1]

\* C2: after one loadFacts call has succeeded, every later call returns the
\* corpus that was built then, without fetching.
C2_LoadIdempotent ==
  /\ built # None => factsCache # None
  /\ (returned # None /\ ~returned[1].fetched) =>
       /\ returned[1].ok
       /\ returned[1].value = built[1]

\* The part of C2 that holds: once a load has succeeded no later call fetches,
\* and a call that does not fetch returns the cache as it is.
LaterCallsDoNotFetch ==
  /\ built # None => factsCache # None
  /\ (returned # None /\ ~returned[1].fetched) =>
       /\ returned[1].ok
       /\ returned[1].value = factsCache[1]

\* C3: a load that fails leaves factsCache as it was (null when no load has
\* succeeded), only the result of a successful load is ever in the cache, and
\* while the cache is null no call returns without fetching.
C3_FailuresNotCached ==
  /\ [](factsCache # None =>
          /\ assigns >= 1
          /\ \E data \in UpstreamCorpora : factsCache[1] = AssignIds(data))
  /\ [](assigns = 0 => factsCache = None)
  /\ []((returned # None /\ ~returned[1].fetched) => factsCache # None)
  /\ [][(returned' # None /\ ~returned'[1].ok) => factsCache' = factsCache]_vars

\* C3 witness: a load failed with no other load in flight and the cache null,
\* and a later call fetched again and succeeded.
C3_Witness ==
  /\ failedAlone
  /\ factsCache # None
  /\ returned # None
  /\ returned[1].ok /\ returned[1].fetched

\* The slots whose request has issued a fetch that has not ended.
InFlight == { s \in Slots : call[s] # Free }

\* C4: of the requests that call loadFacts before the corpus is built only
\* one fetch executes, and every one of them receives the result of that fetch.
C4_SingleFetch ==
  /\ Cardinality(InFlight) <= 1
  /\ (returned # None /\ returned[1].ok) => returned[1].value = built[1]

\* C5: factsCache is assigned at most once.
C5_CacheAssignedOnce == assigns <= 1

\* C9: a search with q absent or empty is answered 400 with
\* {error: "Missing 'q' parameter"} and no data, count or query, whatever the
\* state of the loader.
C9_MissingQuery ==
  (resp.route = "search" /\ (resp.req.q = None \/ resp.req.q = Some(<<>>))) =>
    /\ resp.status = 400
    /\ resp.error = "Missing 'q' parameter"
    /\ DOMAIN resp \cap {"data", "count", "query"} = {}

\* The part of C9 that holds of the remote server: the answer is 400 whenever
\* loadFacts did not throw.
MissingQueryWhenLoaded ==
  (resp.route = "search" /\ (resp.req.q = None \/ resp.req.q = Some(<<>>))
     /\ returned # None /\ returned[1].ok) =>
    /\ resp.status = 400
    /\ resp.error = "Missing 'q' parameter"

\* ------------------------------------------------------------ categories and ids
\* s comes before t in lexicographic order of code units.
LexBefore(s, t) ==
  \E k \in 0..Min2(Len(s), Len(t)) :
    /\ \A i \in 1..k : s[i] = t[i]
    /\ \/ (k = Len(s) /\ k < Len(t))
       \/ (k < Len(s) /\ k < Len(t) /\ s[k + 1] < t[k + 1])

\* s and t are equal when letter case is ignored.
EqualIgnoringCase(s, t) ==
  /\ Len(s) = Len(t)
  /\ \A i \in 1..Len(s) : LowerCh(s[i]) = LowerCh(t[i])

\* The category strings that occur in the corpus.
CorpusCategories == { facts[p].category : p \in 1..N }

\* C11: listCategories answers with exactly the category strings of the
\* corpus, each once under exact equality (two that differ in letter case are
\* both listed), in ascending lexicographic order, with count their number;
\* the answer is the same on every call.
C11_ListCategories ==
  /\ [](resp.route = "categories" =>
         /\ resp.status = 200
         /\ { resp.data[i] : i \in 1..Len(resp.data) } = CorpusCategories
         /\ \A i, j \in 1..Len(resp.data) : i < j => LexBefore(resp.data[i], resp.data[j])
         /\ resp.count = Len(resp.data)
         /\ resp.data = categories)
  /\ [][categories' = categories]_vars

\* C11 witness: the answer lists two categories that differ in letter case
\* only, in an order that is not the order of first occurrence in the corpus.
C11_Witness ==
  /\ resp.route = "categories"
  /\ \E i, j \in 1..Len(resp.data) :
       i # j /\ EqualIgnoringCase(resp.data[i], resp.data[j])
  /\ N >= 2
  /\ resp.data[1] # facts[1].category

\* C12: byCategory(name) answers with exactly the facts whose category equals
\* name ignoring letter case (the whole string), in corpus order, with count
\* their number and name echoed as the caller wrote it; it answers 404 exactly
\* when no fact matches.
C12_ByCategory ==
  resp.route = "byCategory" =>
    LET name == resp.req.name
        hits == { p \in 1..N : EqualIgnoringCase(facts[p].category, name) }
    IN /\ resp.status \in {200, 404}
       /\ resp.status = 404 <=> hits = {}
       /\ resp.status = 200 =>
            /\ \A i \in 1..Len(resp.data) :
                 resp.data[i].id \in hits /\ resp.data[i] = facts[resp.data[i].id]
            /\ \A p \in hits : \E i \in 1..Len(resp.data) : resp.data[i].id = p
            /\ \A i, j \in 1..Len(resp.data) : i < j => resp.data[i].id < resp.data[j].id
            /\ resp.count = Len(resp.data)
            /\ resp.category = name

\* C12 witness: the name matched facts of two categories that both differ
\* from it in letter case, and the corpus holds a fact that was left out.
C12_Witness ==
  /\ resp.route = "byCategory"
  /\ resp.status = 200
  /\ \E i, j \in 1..Len(resp.data) :
       /\ resp.data[i].category # resp.data[j].category
       /\ resp.data[i].category # resp.category
       /\ resp.data[j].category # resp.category
  /\ Len(resp.data) < N

\* C13: byId(raw) has three outcomes: 400 when parseInt finds no integer in raw,
\* 404 when the integer is not in 1..N, else 200 with the fact at position
\* id - 1, whose id is that integer.  The decimal string of every integer n
\* gives the outcome of n, and a raw value with no digit gives 400, never 404.
C13_ById ==
  resp.route = "byId" =>
    LET raw == resp.req.id
        id == ParseInt(raw)
    IN /\ resp.status \in {200, 400, 404}
       /\ resp.status = 400 <=> id.nan
       /\ (\A i \in 1..Len(raw) : raw[i] < 48 \/ raw[i] > 57) => resp.status = 400
       /\ resp.status = 404 <=> (~id.nan /\ id.v \notin 1..N)
       /\ resp.status = 200 =>
            /\ resp.data = facts[id.v]
            /\ resp.data.id = id.v
       /\ \A n \in (0 - 1)..(MaxN + 1) :
            raw = IntStr(n) =>
              /\ ~id.nan /\ id.v = n
              /\ resp.status = IF n \in 1..N THEN 200 ELSE 404

\* C13 witness: the decimal string of N found the last fact of a corpus of
\* two facts or more.
C13_Witness ==
  /\ resp.route = "byId"
  /\ resp.status = 200
  /\ N >= 2
  /\ resp.data.id = N
  /\ resp.req.id = IntStr(N)

\* C17: for every integer limit and offset the page of listPage holds at most
\* 1000 facts and at most max(limit, 0) facts.
C17_PageSizeBound ==
  IsListOfIntegers =>
    /\ Len(resp.data) <= MaxLimit
    /\ Len(resp.data) <= Max2(Given(resp.req.limit, DefaultLimit).v, 0)

\* The part of C17 that holds: the bound for limit >= 0, any integer offset.
PageSizeBoundNonNegativeLimit ==
  (IsListOfIntegers /\ Given(resp.req.limit, DefaultLimit).v >= 0) =>
    /\ Len(resp.data) <= MaxLimit
    /\ Len(resp.data) <= Given(resp.req.limit, DefaultLimit).v

\* C18: byCategory(c) of every c that listCategories lists is not a 404 and
\* holds every fact whose category is exactly c; every fact a byCategory
\* answer holds has a category that listCategories lists.
C18_IndexAndLookupAgree ==
  /\ \A i \in 1..Len(categories) :
       LET c == categories[i]
           r == ByCategory(facts, c)
       IN /\ r.status = 200
          /\ \A p \in 1..N :
               facts[p].category = c => \E k \in 1..Len(r.data) : r.data[k] = facts[p]
  /\ (resp.route = "byCategory" /\ Has(categories, resp.req.name)) =>
       /\ resp.status = 200
       /\ \A p \in 1..N :
            facts[p].category = resp.req.name =>
              \E k \in 1..Len(resp.data) : resp.data[k] = facts[p]
  /\ (resp.route = "byCategory" /\ resp.status = 200) =>
       \A k \in 1..Len(resp.data) : Has(categories, resp.data[k].category)

\* C18 witness: the lookup of a listed category answered with a fact of that
\* category and a fact of another listed category that differs in letter case.
C18_Witness ==
  /\ resp.route = "byCategory"
  /\ resp.status = 200
  /\ Has(categories, resp.req.name)
  /\ \E k \in 1..Len(resp.data) : resp.data[k].category = resp.req.name
  /\ \E k \in 1..Len(resp.data) :
       /\ resp.data[k].category # resp.req.name
       /\ Has(categories, resp.data[k].category)

\* ------------------------------------------------------------ termination
\* C15: randomSample terminates under fair draws, for every corpus of N >= 0
\* facts and every count (larger than N, zero, negative, not a number): a
\* handler in its loop reaches its answer, and the loop condition is false as
\* soon as min(count, N) distinct indices are collected.
C15_RandomSampleTerminates ==
  /\ [](pc = "sampling" =>
         /\ count.nan => ~LoopCond(result, count, facts)
         /\ (~count.nan /\ Len(result) >= Min2(count.v, N)) =>
              ~LoopCond(result, count, facts)
         /\ Len(result) <= N)
  /\ (pc = "sampling") ~> (pc = "respond" /\ resp.route = "random")

\* C15 witness: a request for more facts than the corpus holds was answered
\* with all of them.
C15_Witness ==
  /\ pc = "respond"
  /\ resp.route = "random"
  /\ N >= 2
  /\ ~count.nan
  /\ count.v > N
  /\ Len(result) = N

\* ------------------------------------------------------------ bot properties
\* The handler has answered the webhook for an update that carries a text.
Handled == botPc = "done" /\ update # None /\ HasText(update[1].text)

\* The text is none of /start, /random, /random5, /search <query>,
\* /categories, /category <name>, /stats.
Unrecognised(text) ==
  /\ text \notin {CmdStart, CmdRandom, CmdRandom5, CmdCategories, CmdStats}
  /\ ~StartsWith(text, CmdSearch)
  /\ ~StartsWith(text, CmdCategory)

\* The message is a fact of the corpus, formatted.
IsCorpusFact(m) == \E p \in 1..N : m = FormatFact(facts[p])

\* Exactly one message went to the chat of the update, a fact of the corpus.
OneRandomFactSent ==
  /\ botResp = "ok"
  /\ Len(sent) = 1
  /\ sent[1].chat_id = update[1].chat
  /\ IsCorpusFact(sent[1].message)

\* C14: for every text that is not a recognised command, also one that
\* starts with "/", the bot sends exactly one message to the chat of the
\* update, and the message is a fact of the (non-empty) corpus.
C14_FallbackRandomFact ==
  (Handled /\ N >= 1 /\ Unrecognised(Text)) => OneRandomFactSent

\* The part of C14 that holds: the combined bot for every unrecognised text,
\* the standalone bot for those that do not start with "/".
FallbackPlainText ==
  (Handled /\ N >= 1 /\ Unrecognised(Text)
     /\ (variant = "combined" \/ ~StartsWith(Text, Slash))) => OneRandomFactSent

\* min(5, N) messages went to the chat of the update, each a fact of the
\* corpus, no fact twice, and the webhook was answered ok.
Random5Sent ==
  /\ botResp = "ok"
  /\ Len(sent) = Min2(Random5Count, N)
  /\ \A k \in 1..Len(sent) :
       /\ sent[k].chat_id = update[1].chat
       /\ IsCorpusFact(sent[k].message)
       /\ \A j \in 1..(k - 1) : sent[j].message # sent[k].message

\* The loop of /random5 can end or can still collect an index it has not.
Random5LoopCanEnd ==
  botPc = "looping" =>
    \/ ~(Len(indices) < Random5Count)
    \/ \E idx \in Random5Draws : ~Has(indices, idx)

\* C16: /random5 finishes for every (non-empty) corpus, also one of fewer than
\* five facts: its loop never reaches a state it cannot leave, and the handler
\* ends having sent min(5, N) distinct facts to the chat and answered ok.
C16_Random5 ==
  N >= 1 =>
    /\ Random5LoopCanEnd
    /\ (Handled /\ Text = CmdRandom5) => Random5Sent

\* The part of C16 that holds: the standalone bot for every corpus, and the
\* combined bot for a corpus of five facts or more.
Random5WhereItEnds ==
  (variant = "standalone" \/ N >= Random5Count) =>
    /\ Random5LoopCanEnd
    /\ (Handled /\ Text = CmdRandom5) => Random5Sent

====
